---- MODULE Spec2Model ----
(***************************************************************************)
(* Model of the Smart IAQ backend (src/main.py, src/schemas.py).           *)
(*                                                                         *)
(* Every HTTP handler runs on a worker of the server's thread pool.  A     *)
(* handler is a sequence of steps; a step is one call to the document      *)
(* store together with the local computation around it.  Workers           *)
(* interleave at the store calls.  Optional values are sequences of length *)
(* 0 (None) or 1 (a value).  A pm2_5 / pm10 value is a number of tenths.   *)
(***************************************************************************)
EXTENDS Integers, Sequences, FiniteSets, TLC

\* ---------------------------------------------------------------- bounds
MaxClock == 1
MaxPush == 2
MaxIngest == 3
MaxSet == 3
MaxRequests == 2

\* The workers of the thread pool that handle requests concurrently.
Workers == {"w1", "w2"}
DeviceIds == {"A", "B"}

\* ------------------------------------------------------- optional values
None == << >>
Some(v) == << v >>

\* Python truthiness of an Optional[str]: None and "" are falsy.
Truthy(o) == o /= None /\ o[1] /= ""

VARIABLES
    clock,          \* datetime.now(timezone.utc), in store-resolution ticks
    nextId,         \* the store's next ObjectId
    device,         \* collection "device", in natural (insertion) order
    sensorreading,  \* collection "sensorreading"
    thresholds,     \* collection "thresholds"
    devicecommand,  \* collection "devicecommand"
    pc,             \* pc[w]: the step worker w is at ("idle" between requests)
    loc,            \* loc[w]: the local variables of the handler w runs
    started,        \* started[op]: requests of kind op accepted so far
    response,       \* the most recent HTTP response
    delivered,      \* the commands returned by next_command, in return order
    enqueued,       \* the commands inserted by push_command, in insertion order
    lastSet,        \* lastSet[scope]: the thresholds of the latest accepted
                    \* set_thresholds at that scope, None before the first
    heartbeats      \* the device steps (update or creation) ingestions have done

vars == << clock, nextId, device, sensorreading, thresholds, devicecommand,
           pc, loc, started, response, delivered, enqueued, lastSet,
           heartbeats >>

collections == << device, sensorreading, thresholds, devicecommand >>

NoLocals == [op |-> "none"]
NoResponse == [op |-> "none"]

\* ------------------------------------------------------ document store
\* Indices of the documents of collection c that a filter selects: by
\* device_id, by _id.
WithDeviceId(c, d) == { i \in 1..Len(c) : c[i].device_id = d }
WithId(c, id) == { i \in 1..Len(c) : c[i]._id = id }

Min(S) == CHOOSE x \in S : \A y \in S : x <= y

\* c without its i-th document.
RemoveAt(c, i) == [ j \in 1..(Len(c) - 1) |-> IF j < i THEN c[j] ELSE c[j + 1] ]

\* create_document(collection, data): insert data as a new document with a
\* fresh _id; the call returns the id.
InsertOne(c, data, id) ==
    Append(c, [ k \in DOMAIN data \cup {"_id"} |->
                  IF k = "_id" THEN id ELSE data[k] ])

\* model_dump(exclude_none=True): the set fields only, unwrapped.
ExcludeNone(m) == [ k \in { f \in DOMAIN m : m[f] /= None } |-> m[k][1] ]

\* ------------------------------------------------------------- schemas
\* DeviceCommand: device_id required; mode auto|manual; fan_speed in 0..5.
FanSpeedMin == 0
FanSpeedMax == 5
ValidDeviceCommand(cmd) ==
    /\ cmd.device_id /= None
    /\ cmd.mode \in {None, Some("auto"), Some("manual")}
    /\ cmd.fan_speed /= None =>
          (cmd.fan_speed[1] >= FanSpeedMin /\ cmd.fan_speed[1] <= FanSpeedMax)

\* The request bodies POST /api/commands is exercised with.
Cmd(d, pw, md, fs) == [device_id |-> d, power |-> pw, mode |-> md, fan_speed |-> fs]
CommandPayloads ==
    { Cmd(Some(d), None, None, Some(3)) : d \in DeviceIds }
    \cup { Cmd(Some(d), Some(FALSE), None, None) : d \in DeviceIds }
    \cup { Cmd(Some("A"), None, None, Some(6)), Cmd(None, Some(TRUE), None, None) }

\* ----------------------------------------------------------------- Init
Init ==
    /\ clock = 0
    /\ nextId = 1
    /\ device = << >>
    /\ sensorreading = << >>
    /\ thresholds = << >>
    /\ devicecommand = << >>
    /\ pc = [w \in Workers |-> "idle"]
    /\ loc = [w \in Workers |-> NoLocals]
    /\ started = [op \in {"push", "ingest", "set"} |-> 0]
    /\ response = NoResponse
    /\ delivered = << >>
    /\ enqueued = << >>
    /\ lastSet = [k \in {"global"} \cup DeviceIds |-> None]
    /\ heartbeats = 0

\* The wall clock advances between any two steps, or does not.
Tick ==
    /\ clock < MaxClock
    /\ clock' = clock + 1
    /\ UNCHANGED << nextId, collections, pc, loc, started, response, delivered, enqueued, lastSet, heartbeats >>

\* ------------------------------------------------ POST /api/commands
\* push_command, up to the store call: validation, model_dump, created_at.
PushBegin(w, cmd) ==
    /\ pc[w] = "idle"
    /\ started["push"] < MaxPush
    /\ IF ValidDeviceCommand(cmd)
       THEN /\ pc' = [pc EXCEPT ![w] = "push_insert"]
            /\ loc' = [loc EXCEPT ![w] =
                 [op |-> "push_command",
                  cmd_doc |-> [ k \in DOMAIN ExcludeNone(cmd) \cup {"created_at"} |->
                                  IF k = "created_at" THEN clock
                                  ELSE ExcludeNone(cmd)[k] ]]]
            /\ started' = [started EXCEPT !["push"] = @ + 1]
            /\ UNCHANGED response
       ELSE /\ response' = [op |-> "push_command", status |-> 422]
            /\ UNCHANGED << pc, loc, started >>
    /\ UNCHANGED << clock, nextId, collections, delivered, enqueued, lastSet, heartbeats >>

\* PushInsert that also registers the device of the command.
PushInsertRegisters(w) ==
    /\ pc[w] = "push_insert"
    /\ devicecommand' = InsertOne(devicecommand, loc[w].cmd_doc, nextId)
    /\ enqueued' = InsertOne(enqueued, loc[w].cmd_doc, nextId)
    /\ device' = InsertOne(device, [device_id |-> loc[w].cmd_doc.device_id,
                     name |-> None, location |-> None, power |-> TRUE,
                     mode |-> "auto", fan_speed |-> 1, last_seen |-> None], nextId + 1)
    /\ nextId' = nextId + 2
    /\ response' = [op |-> "push_command", status |-> 200, id |-> nextId]
    /\ pc' = [pc EXCEPT ![w] = "idle"]
    /\ loc' = [loc EXCEPT ![w] = NoLocals]
    /\ UNCHANGED << clock, sensorreading, thresholds, started, delivered, lastSet,
                    heartbeats >>
\* push_command: create_document("devicecommand", cmd_doc) and the response.
PushInsert(w) ==
    /\ pc[w] = "push_insert"
    /\ devicecommand' = InsertOne(devicecommand, loc[w].cmd_doc, nextId)
    /\ enqueued' = InsertOne(enqueued, loc[w].cmd_doc, nextId)
    /\ nextId' = nextId + 1
    /\ response' = [op |-> "push_command", status |-> 200, id |-> nextId]
    /\ pc' = [pc EXCEPT ![w] = "idle"]
    /\ loc' = [loc EXCEPT ![w] = NoLocals]
    /\ UNCHANGED << clock, device, sensorreading, thresholds, started, delivered, lastSet, heartbeats >>

\* -------------------------------------------- GET /api/commands/next
\* find_one({"device_id": d}, sort=[("created_at", 1)]): the indices the
\* store may return: a document of d with the least created_at (the store
\* leaves the order among equal sort keys open).
\* Oldest with the device filter dropped.
OldestAnyDevice(c, d) ==
    { i \in 1..Len(c) : \A j \in 1..Len(c) : c[i].created_at <= c[j].created_at }
\* Oldest with the sort descending: the newest document of the device.
OldestNewestFirst(c, d) ==
    { i \in WithDeviceId(c, d) :
        \A j \in WithDeviceId(c, d) :
            c[i].created_at >= c[j].created_at }
Oldest(c, d) ==
    { i \in WithDeviceId(c, d) :
        \A j \in WithDeviceId(c, d) :
            c[i].created_at <= c[j].created_at }

\* next_command, the find_one call; with no document it returns at once.
NextFind(w, d) ==
    /\ pc[w] = "idle"
    /\ IF Oldest(devicecommand, d) = {}
       THEN /\ response' = [op |-> "next_command", status |-> 200,
                            device_id |-> d, command |-> None]
            /\ UNCHANGED << pc, loc >>
       ELSE /\ \E i \in Oldest(devicecommand, d) :
                 loc' = [loc EXCEPT ![w] =
                    [op |-> "next_command", device_id |-> d, doc |-> devicecommand[i]]]
            /\ pc' = [pc EXCEPT ![w] = "next_delete"]
            /\ UNCHANGED response
    /\ UNCHANGED << clock, nextId, collections, started, delivered, enqueued, lastSet, heartbeats >>

\* delete_one({"_id": id}): removes the document with that _id, if any.
\* DeleteOne that leaves the document in place.
DeleteOneKept(c, id) == c
\* DeleteOne that removes the first document when none has the _id.
DeleteOneOrFirst(c, id) ==
    IF WithId(c, id) = {}
    THEN (IF c = << >> THEN c ELSE Tail(c))
    ELSE RemoveAt(c, Min(WithId(c, id)))
DeleteOne(c, id) ==
    IF WithId(c, id) = {}
    THEN c
    ELSE RemoveAt(c, Min(WithId(c, id)))

\* next_command, the delete_one call and the response.
NextDelete(w) ==
    /\ pc[w] = "next_delete"
    /\ devicecommand' = DeleteOne(devicecommand, loc[w].doc._id)
    /\ response' = [op |-> "next_command", status |-> 200,
                    device_id |-> loc[w].device_id, command |-> Some(loc[w].doc)]
    /\ delivered' = Append(delivered,
                       [device_id |-> loc[w].device_id, doc |-> loc[w].doc])
    /\ pc' = [pc EXCEPT ![w] = "idle"]
    /\ loc' = [loc EXCEPT ![w] = NoLocals]
    /\ UNCHANGED << clock, nextId, device, sensorreading, thresholds, started, enqueued, lastSet, heartbeats >>

\* ------------------------------------------------- thresholds schema
\* Thresholds: the defaults of the five limits, in tenths.
Pm25GoodDefault == 120
Pm25ModerateDefault == 354
Pm10GoodDefault == 540
Co2MaxDefault == 12000
TvocMaxDefault == 5000

ThresholdFields == {"pm2_5_good", "pm2_5_moderate", "pm10_good", "co2_max", "tvoc_max"}

ThresholdDefaults ==
    [pm2_5_good |-> Pm25GoodDefault, pm2_5_moderate |-> Pm25ModerateDefault,
     pm10_good |-> Pm10GoodDefault, co2_max |-> Co2MaxDefault,
     tvoc_max |-> TvocMaxDefault]

\* Every limit is a number >= 0 (Field(..., ge=0)).
ValidThresholds(body) == \A f \in ThresholdFields : body[f] /= None => body[f][1] >= 0

\* Thresholds(**body).model_dump(): device_id stays Optional, an omitted
\* limit takes its default.
ThresholdsDump(body) ==
    [ k \in ThresholdFields \cup {"device_id"} |->
        IF k = "device_id" THEN body.device_id
        ELSE IF body[k] = None THEN ThresholdDefaults[k] ELSE body[k][1] ]

\* The request bodies POST /api/thresholds is exercised with.
Th(d, good, co2) ==
    [device_id |-> d, pm2_5_good |-> good, pm2_5_moderate |-> None,
     pm10_good |-> None, co2_max |-> co2, tvoc_max |-> None]
ScopeParams == {None} \cup { Some(d) : d \in DeviceIds }
ThresholdPayloads ==
    { Th(d, Some(200), None) : d \in ScopeParams }
    \cup { Th(d, None, Some(8000)) : d \in ScopeParams }
    \cup { Th(None, Some(-10), None) }

\* scope = {"device_id": X} if X else {"device_id": {"$exists": False}}
ScopeFilter(device_id) ==
    IF Truthy(device_id) THEN [kind |-> "eq", device_id |-> device_id[1]]
    ELSE [kind |-> "absent"]

\* Whether a stored document satisfies a scope filter: an equality filter
\* needs the field to hold that value, {"$exists": False} needs the
\* document to have no such field (a field holding null exists).
MatchesScope(doc, scope) ==
    IF scope.kind = "eq"
    THEN "device_id" \in DOMAIN doc /\ doc.device_id = Some(scope.device_id)
    ELSE "device_id" \notin DOMAIN doc

\* Indices of the documents of c that satisfy a scope filter.
InScope(c, scope) == { i \in 1..Len(c) : MatchesScope(c[i], scope) }

\* The fields an upsert takes from the filter: its equality conditions.
FilterEqualities(scope) ==
    IF scope.kind = "eq" THEN [device_id |-> Some(scope.device_id)]
    ELSE [ k \in {} |-> None ]

\* doc with the fields of set written over it ($set).
SetFields(doc, set) ==
    [ k \in DOMAIN doc \cup DOMAIN set |-> IF k \in DOMAIN set THEN set[k] ELSE doc[k] ]

\* update_one(scope, {"$set": set}, upsert=True) on the thresholds: the
\* first matching document is updated; with none, one is inserted.
UpsertOne(c, scope, set, id) ==
    IF InScope(c, scope) = {}
    THEN InsertOne(c, SetFields(FilterEqualities(scope), set), id)
    ELSE [c EXCEPT ![Min(InScope(c, scope))] =
              SetFields(@, set)]

ScopeKey(device_id) == IF Truthy(device_id) THEN device_id[1] ELSE "global"

\* --------------------------------------------- POST /api/thresholds
\* set_thresholds: validation, then one update_one with upsert.
SetThresholds(w, body) ==
    /\ pc[w] = "idle"
    /\ started["set"] < MaxSet
    /\ IF ValidThresholds(body)
       THEN /\ thresholds' = UpsertOne(thresholds, ScopeFilter(body.device_id),
                                       ThresholdsDump(body), nextId)
            /\ nextId' = IF Len(thresholds') > Len(thresholds) THEN nextId + 1 ELSE nextId
            /\ lastSet' = [lastSet EXCEPT ![ScopeKey(body.device_id)] =
                              Some(ThresholdsDump(body))]
            /\ started' = [started EXCEPT !["set"] = @ + 1]
            /\ response' = [op |-> "set_thresholds", status |-> 200]
       ELSE /\ response' = [op |-> "set_thresholds", status |-> 422]
            /\ UNCHANGED << thresholds, nextId, lastSet, started >>
    /\ UNCHANGED << clock, device, sensorreading, devicecommand, pc, loc,
                    delivered, enqueued, heartbeats >>

\* ---------------------------------------------- GET /api/thresholds
\* find_one(scope): the first matching document, or None.
FindOneScope(c, scope) ==
    IF InScope(c, scope) = {} THEN None
    ELSE Some(c[Min(InScope(c, scope))])

\* GetThresholdsResult that falls back to the global record (device_id
\* null) when the device has none.
GetThresholdsResultFallback(c, device_id) ==
    IF FindOneScope(c, ScopeFilter(device_id)) /= None
    THEN FindOneScope(c, ScopeFilter(device_id))[1]
    ELSE IF WithDeviceId(c, None) /= {}
    THEN c[Min(WithDeviceId(c, None))]
    ELSE [ k \in ThresholdFields \cup {"device_id"} |->
             IF k = "device_id" THEN device_id ELSE ThresholdDefaults[k] ]
\* The body get_thresholds returns for the query parameter device_id.
GetThresholdsResult(c, device_id) ==
    IF FindOneScope(c, ScopeFilter(device_id)) = None
    THEN [ k \in ThresholdFields \cup {"device_id"} |->
             IF k = "device_id" THEN device_id ELSE ThresholdDefaults[k] ]
    ELSE FindOneScope(c, ScopeFilter(device_id))[1]

GetThresholds(w, device_id) ==
    /\ pc[w] = "idle"
    /\ response' = [op |-> "get_thresholds", status |-> 200, device_id |-> device_id,
                    body |-> GetThresholdsResult(thresholds, device_id)]
    /\ UNCHANGED << clock, nextId, collections, pc, loc, started, delivered,
                    enqueued, lastSet, heartbeats >>

\* ---------------------------------------------------- reading schema
HumidityMax == 100
AqiMax == 500

\* ValidSensorReading without the lower bound of pm2_5.
ValidSensorReadingNoPm25Bound(body) ==
    /\ body.device_id /= None
    /\ body.pm2_5 /= None
    /\ body.pm10 /= None /\ body.pm10[1] >= 0
    /\ body.co2 /= None => body.co2[1] >= 0
    /\ body.tvoc /= None => body.tvoc[1] >= 0
    /\ body.humidity /= None => (body.humidity[1] >= 0 /\ body.humidity[1] <= HumidityMax)
    /\ body.aqi /= None => (body.aqi[1] >= 0 /\ body.aqi[1] <= AqiMax)
\* SensorReading: device_id, pm2_5 and pm10 are required; pm2_5, pm10, co2
\* and tvoc are >= 0; humidity lies in 0..100 and aqi in 0..500.
ValidSensorReading(body) ==
    /\ body.device_id /= None
    /\ body.pm2_5 /= None /\ body.pm2_5[1] >= 0
    /\ body.pm10 /= None /\ body.pm10[1] >= 0
    /\ body.co2 /= None => body.co2[1] >= 0
    /\ body.tvoc /= None => body.tvoc[1] >= 0
    /\ body.humidity /= None => (body.humidity[1] >= 0 /\ body.humidity[1] <= HumidityMax)
    /\ body.aqi /= None => (body.aqi[1] >= 0 /\ body.aqi[1] <= AqiMax)

\* payload.model_dump(): the required fields as values, the others Optional.
ReadingDump(body) ==
    [ k \in DOMAIN body |->
        IF k \in {"device_id", "pm2_5", "pm10"} THEN body[k][1] ELSE body[k] ]

Max2(a, b) == IF a >= b THEN a ELSE b
Min2(a, b) == IF a <= b THEN a ELSE b

\* compute_aqi(pm25, pm10), the arguments Optional and in tenths: None for
\* two None, else int() of the larger of the two clamped scores.
Pm25Factor == 5
Pm10Factor == 2
OrZero(o) == IF o = None THEN 0 ELSE o[1]
\* compute_aqi without the upper clamp.
compute_aqi_unclamped(pm25, pm10) ==
    IF pm25 = None /\ pm10 = None THEN None
    ELSE Some(Max2(Max2(OrZero(pm25) * Pm25Factor, 0),
                   Max2(OrZero(pm10) * Pm10Factor, 0)) \div 10)
compute_aqi(pm25, pm10) ==
    IF pm25 = None /\ pm10 = None THEN None
    ELSE Some(Max2(Min2(Max2(OrZero(pm25) * Pm25Factor, 0), AqiMax * 10),
                   Min2(Max2(OrZero(pm10) * Pm10Factor, 0), AqiMax * 10)) \div 10)

\* Device(device_id=d).model_dump()
DeviceDefaults(d) ==
    [device_id |-> d, name |-> None, location |-> None, power |-> TRUE,
     mode |-> "auto", fan_speed |-> 1, last_seen |-> None]

\* The request bodies POST /api/readings is exercised with.
Reading(d, pm25, pm10, hum, aqi, ts) ==
    [device_id |-> d, pm2_5 |-> pm25, pm10 |-> pm10, co2 |-> None, tvoc |-> None,
     temperature |-> None, humidity |-> hum, aqi |-> aqi, timestamp |-> ts]
ValidReadingPayloads ==
    { Reading(Some(d), Some(100), Some(50), None, None, None) : d \in DeviceIds }
    \cup { Reading(Some("A"), Some(2000), Some(0), Some(40), Some(42), Some(0)) }
InvalidReadingPayloads ==
    { Reading(None, Some(100), Some(50), None, None, None),
      Reading(Some("A"), None, Some(50), None, None, None),
      Reading(Some("A"), Some(100), None, None, None, None),
      Reading(Some("A"), Some(-1), Some(50), None, None, None),
      Reading(Some("A"), Some(100), Some(-1), None, None, None),
      Reading(Some("B"), Some(100), Some(50), Some(101), None, None),
      Reading(Some("B"), Some(100), Some(50), Some(-1), None, None),
      Reading(Some("B"), Some(100), Some(50), None, Some(501), None),
      Reading(Some("B"), Some(100), Some(50), None, Some(-1), None),
      [Reading(Some("B"), Some(100), Some(50), None, None, None) EXCEPT !.co2 = Some(-1)],
      [Reading(Some("B"), Some(100), Some(50), None, None, None) EXCEPT !.tvoc = Some(-1)] }
ReadingPayloads == ValidReadingPayloads \cup InvalidReadingPayloads
\* Valid bodies of one device that vary pm2_5 and pm10 (0.3, 10.0, 200.0 and
\* 0, 5.0, 251.0), without and with a supplied aqi.
AqiReadingPayloads ==
    { Reading(Some("A"), Some(pm25), Some(pm10), None, None, None) :
        pm25 \in {3, 100, 2000}, pm10 \in {0, 50, 2510} }
    \cup { Reading(Some("A"), Some(100), Some(50), None, Some(42), None),
           Reading(Some("A"), Some(2000), Some(0), None, Some(0), None) }

\* ------------------------------------------------ POST /api/readings
\* ingest_reading up to the first store call: validation, model_dump, the
\* default timestamp and the derived aqi.
IngestBegin(w, body) ==
    /\ pc[w] = "idle"
    /\ started["ingest"] < MaxIngest
    /\ IF ValidSensorReading(body)
       THEN /\ pc' = [pc EXCEPT ![w] = "ingest_find"]
            /\ loc' = [loc EXCEPT ![w] =
                 [op |-> "ingest_reading",
                  data |-> [ReadingDump(body) EXCEPT
                     !.timestamp = IF @ = None THEN Some(clock) ELSE @,
                     !.aqi = IF @ = None
                             THEN compute_aqi(Some(ReadingDump(body).pm2_5),
                                              Some(ReadingDump(body).pm10))
                             ELSE @]]]
            /\ started' = [started EXCEPT !["ingest"] = @ + 1]
            /\ UNCHANGED response
       ELSE /\ response' = [op |-> "ingest_reading", status |-> 422]
            /\ UNCHANGED << pc, loc, started >>
    /\ UNCHANGED << clock, nextId, collections, delivered, enqueued, lastSet, heartbeats >>

\* existing = list(db["device"].find(device_filter))
FindDevices(c, d) == WithDeviceId(c, d)

\* IngestFind that skips the device step.
IngestFindSkipDevice(w) ==
    /\ pc[w] = "ingest_find"
    /\ pc' = [pc EXCEPT ![w] = "ingest_insert"]
    /\ UNCHANGED << clock, nextId, collections, loc, started, response, delivered,
                    enqueued, lastSet, heartbeats >>
IngestFind(w) ==
    /\ pc[w] = "ingest_find"
    /\ pc' = [pc EXCEPT ![w] =
                IF FindDevices(device, loc[w].data.device_id) /= {}
                THEN "ingest_now" ELSE "ingest_create"]
    /\ UNCHANGED << clock, nextId, collections, loc, started, response, delivered,
                    enqueued, lastSet, heartbeats >>

\* The argument of update_one is evaluated first: datetime.now(timezone.utc).
IngestNow(w) ==
    /\ pc[w] = "ingest_now"
    /\ loc' = [loc EXCEPT ![w] =
                 [op |-> "ingest_reading", data |-> loc[w].data, now |-> clock]]
    /\ pc' = [pc EXCEPT ![w] = "ingest_update"]
    /\ UNCHANGED << clock, nextId, collections, started, response, delivered,
                    enqueued, lastSet, heartbeats >>

\* update_one(device_filter, {"$set": {"last_seen": now}}): the first
\* matching document gets the field, no document is inserted.
\* UpdateOneDevice that also resets the power state.
UpdateOneDeviceResetPower(c, d, set) ==
    IF FindDevices(c, d) = {} THEN c
    ELSE [c EXCEPT ![Min(FindDevices(c, d))] =
             SetFields(SetFields(@, set), [power |-> FALSE])]
UpdateOneDevice(c, d, set) ==
    IF FindDevices(c, d) = {} THEN c
    ELSE [c EXCEPT ![Min(FindDevices(c, d))] = SetFields(@, set)]

IngestUpdate(w) ==
    /\ pc[w] = "ingest_update"
    /\ device' = UpdateOneDevice(device, loc[w].data.device_id,
                                 [last_seen |-> Some(loc[w].now)])
    /\ pc' = [pc EXCEPT ![w] = "ingest_insert"]
    /\ heartbeats' = heartbeats + 1
    /\ UNCHANGED << clock, nextId, sensorreading, thresholds, devicecommand, loc,
                    started, response, delivered, enqueued, lastSet >>

\* IngestCreate that inserts no record.
IngestCreateOmitted(w) ==
    /\ pc[w] = "ingest_create"
    /\ pc' = [pc EXCEPT ![w] = "ingest_insert"]
    /\ heartbeats' = heartbeats + 1
    /\ UNCHANGED << clock, nextId, collections, loc, started, response, delivered,
                    enqueued, lastSet >>
\* create_document("device", Device(device_id=...).model_dump())
IngestCreate(w) ==
    /\ pc[w] = "ingest_create"
    /\ device' = InsertOne(device, DeviceDefaults(loc[w].data.device_id), nextId)
    /\ nextId' = nextId + 1
    /\ pc' = [pc EXCEPT ![w] = "ingest_insert"]
    /\ heartbeats' = heartbeats + 1
    /\ UNCHANGED << clock, sensorreading, thresholds, devicecommand, loc, started,
                    response, delivered, enqueued, lastSet >>

\* create_document("sensorreading", data) and the response.
IngestInsert(w) ==
    /\ pc[w] = "ingest_insert"
    /\ sensorreading' = InsertOne(sensorreading, loc[w].data, nextId)
    /\ nextId' = nextId + 1
    /\ response' = [op |-> "ingest_reading", status |-> 200, id |-> nextId]
    /\ pc' = [pc EXCEPT ![w] = "idle"]
    /\ loc' = [loc EXCEPT ![w] = NoLocals]
    /\ UNCHANGED << clock, device, thresholds, devicecommand, started, delivered,
                    enqueued, lastSet, heartbeats >>

\* ----------------------------------------- GET /api/readings/latest
DefaultLimit == 50

\* The readings a query selects: those of device_id if it is truthy, else all.
Selected(c, device_id) ==
    IF Truthy(device_id) THEN WithDeviceId(c, device_id[1]) ELSE 1..Len(c)

\* find(query).sort("timestamp", -1): the orders the store may return the
\* selected readings in, newest first, the order among equal timestamps open.
NewestFirst(c, sel) ==
    { r \in [1..Cardinality(sel) -> sel] :
        /\ \A i, j \in 1..Cardinality(sel) : i /= j => r[i] /= r[j]
        /\ \A i, j \in 1..Cardinality(sel) :
              i < j => c[r[i]].timestamp[1] >= c[r[j]].timestamp[1] }

\* .limit(n): the first |n| documents, all of them for n = 0.
Limit(r, n) ==
    IF n = 0 THEN r
    ELSE SubSeq(r, 1, Min2(IF n < 0 THEN -n ELSE n, Len(r)))

\* get_latest_readings: one find, each document returned with its fields.
GetLatestReadings(w, device_id, limit) ==
    /\ pc[w] = "idle"
    /\ \E r \in NewestFirst(sensorreading, Selected(sensorreading, device_id)) :
          response' = [op |-> "get_latest_readings", status |-> 200,
                       body |-> [ i \in 1..Len(Limit(r, limit)) |->
                                    sensorreading[Limit(r, limit)[i]] ]]
    /\ UNCHANGED << clock, nextId, collections, pc, loc, started, delivered,
                    enqueued, lastSet, heartbeats >>

\* ------------------------------------------------- GET /api/devices
\* get_documents(collection): every document, in the store's order.
GetDocuments(c) == c

ListDevices(w) ==
    /\ pc[w] = "idle"
    /\ response' = [op |-> "list_devices", status |-> 200,
                    body |-> GetDocuments(device)]
    /\ UNCHANGED << clock, nextId, collections, pc, loc, started, delivered,
                    enqueued, lastSet, heartbeats >>

\* A store call of ingest_reading raises (or the worker dies): the handler
\* is abandoned where it stands and the request is answered 500.
IngestSteps == {"ingest_find", "ingest_now", "ingest_update", "ingest_create",
                "ingest_insert"}
Crash(w) ==
    /\ pc[w] \in IngestSteps
    /\ pc' = [pc EXCEPT ![w] = "idle"]
    /\ loc' = [loc EXCEPT ![w] = NoLocals]
    /\ response' = [op |-> "ingest_reading", status |-> 500, at |-> pc[w]]
    /\ UNCHANGED << clock, nextId, collections, started, delivered, enqueued,
                    lastSet, heartbeats >>

\* ------------------------------------------------------- specifications
\* The command queue, the thresholds and the ingestion work on disjoint
\* collections; each has its own specification, and Spec is the whole
\* server.
NextQueue ==
    \/ Tick
    \/ \E w \in Workers, cmd \in CommandPayloads : PushBegin(w, cmd)
    \/ \E w \in Workers : PushInsert(w)
    \/ \E w \in Workers, d \in DeviceIds : NextFind(w, d)
    \/ \E w \in Workers : NextDelete(w)

SpecQueue == Init /\ [][NextQueue]_vars

\* The command queue with a device that keeps polling and handlers that run
\* to their end: a poll of each device, and the pending store call of each
\* worker, is taken if it stays possible. Producers send one valid body per
\* device, any number of times, and an invalid one.
PollCommands ==
    { Cmd(Some(d), None, None, Some(3)) : d \in DeviceIds }
    \cup { Cmd(None, Some(TRUE), None, None) }

NextQueueFair ==
    \/ Tick
    \/ \E w \in Workers, cmd \in PollCommands : PushBegin(w, cmd)
    \/ \E w \in Workers : PushInsert(w)
    \/ \E w \in Workers, d \in DeviceIds : NextFind(w, d)
    \/ \E w \in Workers : NextDelete(w)

SpecQueueFair ==
    /\ Init /\ [][NextQueueFair]_vars
    /\ \A d \in DeviceIds : WF_vars(\E w \in Workers : NextFind(w, d))
    /\ \A w \in Workers : WF_vars(NextDelete(w))
    /\ \A w \in Workers : WF_vars(PushInsert(w))

NextThresholds ==
    \/ \E w \in Workers, body \in ThresholdPayloads : SetThresholds(w, body)
    \/ \E w \in Workers, device_id \in ScopeParams : GetThresholds(w, device_id)

SpecThresholds == Init /\ [][NextThresholds]_vars

NextIngest ==
    \/ Tick
    \/ \E w \in Workers, body \in ReadingPayloads : IngestBegin(w, body)
    \/ \E w \in Workers : IngestFind(w)
    \/ \E w \in Workers : IngestNow(w)
    \/ \E w \in Workers : IngestUpdate(w)
    \/ \E w \in Workers : IngestCreate(w)
    \/ \E w \in Workers : IngestInsert(w)

SpecIngest == Init /\ [][NextIngest]_vars

\* The ingestion with requests that fail between their store calls.
NextIngestCrash ==
    \/ Tick
    \/ \E w \in Workers, body \in ReadingPayloads : IngestBegin(w, body)
    \/ \E w \in Workers : IngestFind(w)
    \/ \E w \in Workers : IngestNow(w)
    \/ \E w \in Workers : IngestUpdate(w)
    \/ \E w \in Workers : IngestCreate(w)
    \/ \E w \in Workers : IngestInsert(w)
    \/ \E w \in Workers : Crash(w)

SpecIngestCrash == Init /\ [][NextIngestCrash]_vars

\* Ingestions of one worker over the bodies that vary pm2_5, pm10 and aqi.
NextAqi ==
    \/ \E body \in AqiReadingPayloads : IngestBegin("w1", body)
    \/ \E w \in Workers : IngestFind(w)
    \/ \E w \in Workers : IngestNow(w)
    \/ \E w \in Workers : IngestUpdate(w)
    \/ \E w \in Workers : IngestCreate(w)
    \/ \E w \in Workers : IngestInsert(w)

SpecAqi == Init /\ [][NextAqi]_vars

Next ==
    \/ Tick
    \/ \E w \in Workers, cmd \in CommandPayloads : PushBegin(w, cmd)
    \/ \E w \in Workers : PushInsert(w)
    \/ \E w \in Workers, d \in DeviceIds : NextFind(w, d)
    \/ \E w \in Workers : NextDelete(w)
    \/ \E w \in Workers, body \in ThresholdPayloads : SetThresholds(w, body)
    \/ \E w \in Workers, device_id \in ScopeParams : GetThresholds(w, device_id)
    \/ \E w \in Workers, body \in ReadingPayloads : IngestBegin(w, body)
    \/ \E w \in Workers : IngestFind(w)
    \/ \E w \in Workers : IngestNow(w)
    \/ \E w \in Workers : IngestUpdate(w)
    \/ \E w \in Workers : IngestCreate(w)
    \/ \E w \in Workers : IngestInsert(w)
    \/ \E w \in Workers : Crash(w)
    \/ \E w \in Workers, device_id \in ScopeParams, limit \in {1, DefaultLimit} :
          GetLatestReadings(w, device_id, limit)
    \/ \E w \in Workers : ListDevices(w)

Spec == Init /\ [][Next]_vars

\* The whole server, handling one request at a time, while it has accepted
\* at most MaxRequests writing requests (commands, readings, thresholds).
\* Its request bodies: two valid ones and an invalid one per endpoint.
ServerCommands ==
    { Cmd(Some("A"), None, None, Some(3)), Cmd(Some("B"), Some(FALSE), None, None),
      Cmd(None, Some(TRUE), None, None) }
ServerThresholds ==
    { Th(None, Some(200), None), Th(Some("A"), None, Some(8000)),
      Th(None, Some(-10), None) }
ServerReadings ==
    { Reading(Some(d), Some(100), Some(50), None, None, None) : d \in DeviceIds }
    \cup { Reading(Some("A"), Some(-1), Some(50), None, None, None) }
Admitted == started["push"] + started["ingest"] + started["set"] <= MaxRequests

NextServer ==
    \/ Tick
    \/ \E w \in {"w1"}, cmd \in ServerCommands : PushBegin(w, cmd) /\ Admitted'
    \/ \E w \in {"w1"} : PushInsert(w)
    \/ \E w \in {"w1"}, d \in DeviceIds : NextFind(w, d)
    \/ \E w \in {"w1"} : NextDelete(w)
    \/ \E w \in {"w1"}, body \in ServerThresholds : SetThresholds(w, body) /\ Admitted'
    \/ \E w \in {"w1"}, device_id \in ScopeParams : GetThresholds(w, device_id)
    \/ \E w \in {"w1"}, body \in ServerReadings : IngestBegin(w, body) /\ Admitted'
    \/ \E w \in {"w1"} : IngestFind(w)
    \/ \E w \in {"w1"} : IngestNow(w)
    \/ \E w \in {"w1"} : IngestUpdate(w)
    \/ \E w \in {"w1"} : IngestCreate(w)
    \/ \E w \in {"w1"} : IngestInsert(w)
    \/ \E w \in {"w1"}, device_id \in ScopeParams, limit \in {1, DefaultLimit} :
          GetLatestReadings(w, device_id, limit)
    \/ \E w \in {"w1"} : ListDevices(w)

SpecServer == Init /\ [][NextServer]_vars

\* =============================================================== claims
\* The commands of device d in a collection or log, in its order.
CommandsOf(c, d) == SelectSeq(c, LAMBDA doc : doc.device_id = d)
\* The commands next_command(d) has returned, in return order.
DeliveredTo(d) == SelectSeq(delivered, LAMBDA e : e.device_id = d)
EmptyResponse(d) ==
    [op |-> "next_command", status |-> 200, device_id |-> d, command |-> None]

\* C1: FIFO. The commands returned by the dequeues of a device are, in
\* return order, exactly the first commands inserted for that device, in
\* insertion order; hence no command is returned twice.
C1_FIFO ==
    \A d \in DeviceIds :
        /\ Len(DeliveredTo(d)) <= Len(CommandsOf(enqueued, d))
        /\ \A i \in 1..Len(DeliveredTo(d)) :
              i <= Len(CommandsOf(enqueued, d))
                 => DeliveredTo(d)[i].doc = CommandsOf(enqueued, d)[i]

\* C2: no double delivery. No command is returned by two next_command calls.
C2_NoDoubleDelivery ==
    \A i, j \in 1..Len(delivered) :
        i /= j => delivered[i].doc._id /= delivered[j].doc._id

\* C4: isolation. Every command returned by next_command(d) was enqueued
\* with device_id d, and no step of next_command(d) changes the pending
\* commands of another device.
C4_Isolation ==
    /\ [](\A i \in 1..Len(delivered) : delivered[i].doc.device_id = delivered[i].device_id)
    /\ [][\A w \in Workers, d \in DeviceIds :
            (NextFind(w, d) \/ (NextDelete(w) /\ loc[w].device_id = d))
               => \A a \in DeviceIds \ {d} :
                     CommandsOf(devicecommand', a) = CommandsOf(devicecommand, a)]_vars

\* A command of B has been returned while a command of A is pending.
C4_Witness ==
    /\ \E i \in 1..Len(delivered) : delivered[i].device_id = "B"
    /\ CommandsOf(devicecommand, "A") /= << >>

\* C9: empty dequeue. A next_command(d) that finds no pending command of d
\* answers {command: null} and changes no collection and starts nothing;
\* and once the k commands enqueued for d have been returned by k dequeues,
\* the next dequeue of d answers {command: null}.
C9_EmptyDequeue ==
    [][\A w \in Workers, d \in DeviceIds :
         NextFind(w, d) =>
            /\ CommandsOf(devicecommand, d) = << >>
                  => /\ response' = EmptyResponse(d)
                     /\ UNCHANGED << collections, pc, loc, delivered, nextId >>
            /\ ( /\ Len(DeliveredTo(d)) = Len(CommandsOf(enqueued, d))
                 /\ \A i, j \in 1..Len(DeliveredTo(d)) :
                       i /= j => DeliveredTo(d)[i].doc._id /= DeliveredTo(d)[j].doc._id )
                  => response' = EmptyResponse(d)]_vars

\* Two commands were enqueued for a device, two dequeues returned them and
\* a third dequeue returned empty.
C9_Witness ==
    \E d \in DeviceIds :
        /\ Len(CommandsOf(enqueued, d)) = 2
        /\ Len(DeliveredTo(d)) = 2
        /\ DeliveredTo(d)[1].doc._id /= DeliveredTo(d)[2].doc._id
        /\ response = EmptyResponse(d)

\* The scope of a stored thresholds record: its device, None for global.
ScopeOf(doc) == IF "device_id" \in DOMAIN doc THEN doc.device_id ELSE None
\* The five limits of a thresholds record or response body.
Limits(r) == [ k \in ThresholdFields |-> r[k] ]
\* A record or body without its _id.
Thresholds_(r) == [ k \in ThresholdFields \cup {"device_id"} |-> r[k] ]

\* C6: threshold scope uniqueness. No two records of the thresholds
\* collection have the same scope (global, or the same device_id).
C6_ScopeUnique ==
    \A i, j \in 1..Len(thresholds) :
        i /= j => ScopeOf(thresholds[i]) /= ScopeOf(thresholds[j])

\* C7: global round trip. get_thresholds with no device_id returns the
\* limits of the latest set_thresholds made with no device_id, and the
\* defaults when there was none.
C7_GlobalRoundTrip ==
    Limits(GetThresholdsResult(thresholds, None)) =
        IF lastSet["global"] = None THEN ThresholdDefaults
        ELSE Limits(lastSet["global"][1])

\* C8: no fallback to global. get_thresholds(device_id=X) returns the
\* record of the latest set_thresholds made with device_id X, and with none
\* the defaults annotated with X, whatever was written at the global scope.
C8_NoGlobalFallback ==
    \A d \in DeviceIds :
        Thresholds_(GetThresholdsResult(thresholds, Some(d))) =
            IF lastSet[d] = None
            THEN [ k \in ThresholdFields \cup {"device_id"} |->
                     IF k = "device_id" THEN Some(d) ELSE ThresholdDefaults[k] ]
            ELSE lastSet[d][1]

\* A device without a record asked for its thresholds after a global write
\* of other limits, and got the defaults; another device has its own record.
C8_Witness ==
    /\ lastSet["global"] /= None
    /\ Limits(lastSet["global"][1]) /= ThresholdDefaults
    /\ lastSet["A"] = None
    /\ lastSet["B"] /= None
    /\ response.op = "get_thresholds"
    /\ response.device_id = Some("A")
    /\ Limits(response.body) = ThresholdDefaults
    /\ response.body.device_id = Some("A")

\* C3: idempotent device creation. The device collection holds at most one
\* record per device_id.
C3_OneDevicePerId ==
    \A d \in DeviceIds : Cardinality(FindDevices(device, d)) <= 1

\* last_seen as a number, None below every time.
LastSeenValue(doc) == IF doc.last_seen = None THEN -1 ELSE doc.last_seen[1]

\* C5: heartbeat monotonicity. No step lowers the last_seen of a device
\* record.
C5_HeartbeatMonotone ==
    [][\A i \in 1..Len(device) :
          LastSeenValue(device'[i]) >= LastSeenValue(device[i])]_vars

\* A request body that breaks a SensorReading constraint named by the claim.
FailsValidation(body) ==
    \/ body.device_id = None \/ body.pm2_5 = None \/ body.pm10 = None
    \/ body.pm2_5[1] < 0 \/ body.pm10[1] < 0
    \/ (body.humidity /= None /\ (body.humidity[1] < 0 \/ body.humidity[1] > 100))
    \/ (body.aqi /= None /\ (body.aqi[1] < 0 \/ body.aqi[1] > 500))

\* C10: validation is all-or-nothing. An ingest_reading request whose body
\* fails validation is answered 422, starts no handler and changes no
\* collection; no stored reading breaks a constraint.
C10_ValidationAllOrNothing ==
    /\ [][\A w \in Workers, body \in ReadingPayloads :
            (IngestBegin(w, body) /\ FailsValidation(body))
               => /\ response' = [op |-> "ingest_reading", status |-> 422]
                  /\ UNCHANGED << collections, pc, loc, nextId >>]_vars
    /\ [](\A i \in 1..Len(sensorreading) :
            /\ sensorreading[i].pm2_5 >= 0 /\ sensorreading[i].pm10 >= 0
            /\ sensorreading[i].humidity /= None =>
                  sensorreading[i].humidity[1] \in 0..100
            /\ sensorreading[i].aqi /= None => sensorreading[i].aqi[1] \in 0..500)

\* A request was rejected while a device and a reading were stored.
C10_Witness ==
    /\ response = [op |-> "ingest_reading", status |-> 422]
    /\ device /= << >>
    /\ sensorreading /= << >>

\* A device record without its last_seen.
DeviceButLastSeen(doc) == [ k \in DOMAIN doc \ {"last_seen"} |-> doc[k] ]

\* C11: heartbeat on a known device. An ingestion that finds a record of
\* its device goes on to the update, never to the creation; the update
\* adds no record, gives one record of that device the time the handler
\* read as last_seen, and leaves every other field of every record as it
\* was.
C11_HeartbeatOnlyLastSeen ==
    /\ [][\A w \in Workers :
            (IngestFind(w) /\ FindDevices(device, loc[w].data.device_id) /= {})
               => (pc'[w] = "ingest_now" /\ device' = device)]_vars
    /\ [][\A w \in Workers :
            IngestUpdate(w) =>
               /\ Len(device') = Len(device)
               /\ \A i \in 1..Len(device) :
                     DeviceButLastSeen(device'[i]) = DeviceButLastSeen(device[i])
               /\ \E i \in FindDevices(device, loc[w].data.device_id) :
                     /\ device'[i].last_seen = Some(loc[w].now)
                     /\ \A j \in 1..Len(device) \ {i} : device'[j] = device[j]
               /\ loc[w].now <= clock]_vars

\* A known device has had a heartbeat: its last_seen is a time.
C11_Witness ==
    \E i \in 1..Len(device) :
        /\ device[i].last_seen /= None
        /\ device[i].power = TRUE /\ device[i].mode = "auto" /\ device[i].fan_speed = 1
        /\ Len(sensorreading) >= 2

\* C12: first contact. The record an ingestion creates for an unseen
\* device has that device_id, power true, mode auto, fan_speed 1 and the
\* current time, not null, as last_seen.
C12_FirstContactDefaults ==
    [][\A w \in Workers :
         IngestCreate(w) =>
            /\ Len(device') = Len(device) + 1
            /\ device'[Len(device')].device_id = loc[w].data.device_id
            /\ device'[Len(device')].power = TRUE
            /\ device'[Len(device')].mode = "auto"
            /\ device'[Len(device')].fan_speed = 1
            /\ device'[Len(device')].last_seen /= None
            /\ device'[Len(device')].last_seen = Some(clock)]_vars

\* clamp(max(pm2_5*5, pm10*2), 0, 500) of a request body, in tenths.
ClaimedAqiTenths(body) ==
    LET m == IF body.pm2_5[1] * 5 >= body.pm10[1] * 2
             THEN body.pm2_5[1] * 5 ELSE body.pm10[1] * 2
    IN  IF m < 0 THEN 0 ELSE IF m > 5000 THEN 5000 ELSE m

\* C13 as claimed: the aqi derived for a body without aqi equals
\* clamp(max(pm2_5*5, pm10*2), 0, 500); a supplied aqi is kept.
C13_AqiExact ==
    [][\A w \in Workers, body \in AqiReadingPayloads :
         IngestBegin(w, body) =>
            IF body.aqi = None
            THEN /\ loc'[w].data.aqi /= None
                 /\ loc'[w].data.aqi[1] * 10 = ClaimedAqiTenths(body)
            ELSE loc'[w].data.aqi = body.aqi]_vars

\* C13 as amended: the aqi derived for a body without aqi is the integer
\* part of clamp(max(pm2_5*5, pm10*2), 0, 500); a supplied aqi is kept; the
\* reading is stored with that aqi; every stored aqi lies in 0..500.
C13_AqiTruncated ==
    /\ [][\A w \in Workers, body \in AqiReadingPayloads :
            IngestBegin(w, body) =>
               IF body.aqi = None
               THEN loc'[w].data.aqi = Some(ClaimedAqiTenths(body) \div 10)
               ELSE loc'[w].data.aqi = body.aqi]_vars
    /\ [][\A w \in Workers :
            IngestInsert(w) =>
               sensorreading'[Len(sensorreading')].aqi = loc[w].data.aqi]_vars
    /\ [](\A i \in 1..Len(sensorreading) :
            /\ sensorreading[i].aqi /= None
            /\ sensorreading[i].aqi[1] \in 0..500)

\* Stored: pm2_5 = 10, pm10 = 5 with aqi 50; pm2_5 = 200, pm10 = 0 with aqi
\* 500; pm2_5 = 0.3, pm10 = 0 with aqi 1.
C13_Witness ==
    /\ \E i \in 1..Len(sensorreading) :
          /\ sensorreading[i].pm2_5 = 100 /\ sensorreading[i].pm10 = 50
          /\ sensorreading[i].aqi = Some(50)
    /\ \E i \in 1..Len(sensorreading) :
          /\ sensorreading[i].pm2_5 = 2000 /\ sensorreading[i].pm10 = 0
          /\ sensorreading[i].aqi = Some(500)
    /\ \E i \in 1..Len(sensorreading) :
          /\ sensorreading[i].pm2_5 = 3 /\ sensorreading[i].pm10 = 0
          /\ sensorreading[i].aqi = Some(1)

C15_NoSilentLoss ==
    \A i \in 1..Len(enqueued) :
        \/ WithId(devicecommand, enqueued[i]._id) /= {}
        \/ \E j \in 1..Len(delivered) :
              /\ delivered[j].doc = enqueued[i]
              /\ delivered[j].device_id = enqueued[i].device_id

\* Two polls raced on one command and both returned it, while a second
\* command, enqueued meanwhile, is pending.
C15_Witness ==
    /\ Len(enqueued) = 2
    /\ Len(devicecommand) = 1
    /\ Len(delivered) = 2
    /\ delivered[1].doc._id = delivered[2].doc._id

\* C16: monotonic enqueue timestamps. Of two commands of one device, the
\* one inserted later has the strictly greater created_at.
C16_MonotonicCreatedAt ==
    \A d \in DeviceIds :
        \A i, j \in 1..Len(CommandsOf(enqueued, d)) :
            i < j => CommandsOf(enqueued, d)[i].created_at
                        < CommandsOf(enqueued, d)[j].created_at

\* C17: wholesale replacement. After an accepted set_thresholds(th), every
\* record at th's scope holds exactly th's limits, defaults for the omitted
\* ones, there is such a record, and the records at other scopes are the
\* same as before.
C17_ReplacedWholesale ==
    [][\A w \in Workers, body \in ThresholdPayloads :
         (SetThresholds(w, body) /\ ValidThresholds(body)) =>
            /\ \E i \in 1..Len(thresholds') :
                  ScopeOf(thresholds'[i]) = ScopeOf(ThresholdsDump(body))
            /\ \A i \in 1..Len(thresholds') :
                  ScopeOf(thresholds'[i]) = ScopeOf(ThresholdsDump(body))
                     => Thresholds_(thresholds'[i]) = ThresholdsDump(body)
            /\ \A i \in 1..Len(thresholds) :
                  ScopeOf(thresholds[i]) /= ScopeOf(ThresholdsDump(body))
                     => \E j \in 1..Len(thresholds') : thresholds'[j] = thresholds[i]]_vars

\* C19: every stored reading references a known device. In every state,
\* also inside an ingestion and after a failed one, each record of
\* sensorreading has a Device record with its device_id.
C19_ReadingHasDevice ==
    \A i \in 1..Len(sensorreading) :
        FindDevices(device, sensorreading[i].device_id) /= {}

\* Readings of two devices are stored while another ingestion is between
\* its store calls.
C19_Witness ==
    /\ \E i, j \in 1..Len(sensorreading) :
          sensorreading[i].device_id /= sensorreading[j].device_id
    /\ \E w \in Workers : pc[w] \in IngestSteps

\* A step of ingest_reading that writes to the store.
IngestWrite ==
    \E w \in Workers : IngestUpdate(w) \/ IngestCreate(w) \/ IngestInsert(w)

\* C18: readings are append-only and devices are never deleted. No step
\* changes or removes a stored reading or removes a device record; the
\* readings change only by the insert of a successful ingest_reading, which
\* adds exactly one; every step that changes device or sensorreading is a
\* write of ingest_reading, so the steps of push_command, next_command,
\* set_thresholds, get_thresholds and the two list operations leave both
\* as they are.
C18_AppendOnly ==
    /\ [][/\ Len(sensorreading') >= Len(sensorreading)
          /\ \A i \in 1..Len(sensorreading) : sensorreading'[i] = sensorreading[i]
          /\ Len(device') >= Len(device)
          /\ \A i \in 1..Len(device) : device'[i]._id = device[i]._id]_vars
    /\ [][sensorreading' /= sensorreading =>
            /\ \E w \in Workers : IngestInsert(w)
            /\ Len(sensorreading') = Len(sensorreading) + 1]_vars
    /\ [][\A w \in Workers : pc[w] = "ingest_insert" /\ pc'[w] = "idle" =>
            Len(sensorreading') = Len(sensorreading) + 1]_vars
    /\ [][device' /= device \/ sensorreading' /= sensorreading => IngestWrite]_vars

\* A reading is stored, and a command was queued and returned for a device
\* that has no record.
C18_Witness ==
    /\ Len(sensorreading) = 1
    /\ \E i \in 1..Len(delivered) :
          FindDevices(device, delivered[i].doc.device_id) = {}
    /\ Len(device) = 1

====
